---- MODULE Spec2Model ----
(***************************************************************************)
(* Model of 0x02-redis_basic/exercise.py: the Cache class, the decorators  *)
(* count_calls and call_history, the module-level statements that apply    *)
(* them, and replay.                                                       *)
(*                                                                         *)
(* The file is executed statement by statement in one namespace; a name    *)
(* bound before a statement raises stays bound.  Clients then use whatever *)
(* the namespace holds.  The external store is one keyspace whose prior    *)
(* content is arbitrary; its commands are modelled as always answering.    *)
(*                                                                         *)
(* Python values are records [kind, val, num, key, exc]: val holds the     *)
(* bytes of a bytes object or the code points of a str, num an int, key    *)
(* the identity of a uuid string, exc the class of a raised exception.     *)
(***************************************************************************)
EXTENDS Integers, Sequences, FiniteSets, TLC

VARIABLES loadpc, loadError, ns, storeAttr, redis, redis0, cache, calls, issued, last

vars == <<loadpc, loadError, ns, storeAttr, redis, redis0, cache, calls, issued, last>>

\* ------------------------------------------------------------------ bounds
MaxCalls == 2

Callers == {"a", "b"}

Uuids == {"u1", "u2", "u3"}

\* ------------------------------------------------------------ Python values
PyNone == [kind |-> "None", val |-> <<>>, num |-> 0, key |-> "", exc |-> ""]

PyBytes(b) == [kind |-> "bytes", val |-> b, num |-> 0, key |-> "", exc |-> ""]

PyStr(s) == [kind |-> "str", val |-> s, num |-> 0, key |-> "", exc |-> ""]

PyInt(n) == [kind |-> "int", val |-> <<>>, num |-> n, key |-> "", exc |-> ""]

PyFloat(r) == [kind |-> "float", val |-> r, num |-> 0, key |-> "", exc |-> ""]

PyKey(k) == [kind |-> "key", val |-> <<>>, num |-> 0, key |-> k, exc |-> ""]

PyExc(e) == [kind |-> "exc", val |-> <<>>, num |-> 0, key |-> "", exc |-> e]

\* the scalars handed to store: "foo", b"foo", 42, 1.5
Values == {PyStr(<<102, 111, 111>>), PyBytes(<<102, 111, 111>>), PyInt(42), PyFloat(<<49, 46, 53>>)}

\* ------------------------------------------------------------- conversions
RECURSIVE NatToAscii(_)
NatToAscii(n) ==
  IF n < 10 THEN <<48 + n>> ELSE NatToAscii(n \div 10) \o <<48 + (n % 10)>>

IntToAscii(n) ==
  IF n < 0 THEN <<45>> \o NatToAscii(0 - n) ELSE NatToAscii(n)

IsDigits(s) ==
  Len(s) > 0 /\ \A i \in 1..Len(s) : s[i] \in 48..57

RECURSIVE DigitsVal(_)
DigitsVal(s) ==
  IF s = <<>> THEN 0
  ELSE DigitsVal(SubSeq(s, 1, Len(s) - 1)) * 10 + (s[Len(s)] - 48)

\* int(d) on bytes: optional sign, then decimal digits
int(d) ==
  IF d.kind # "bytes" THEN PyExc("TypeError")
  ELSE LET b == d.val
           signed == Len(b) > 0 /\ b[1] \in {43, 45}
           body == IF signed THEN Tail(b) ELSE b
       IN IF ~IsDigits(body) THEN PyExc("ValueError")
          ELSE IF signed /\ b[1] = 45 THEN PyInt(0 - DigitsVal(body))
          ELSE PyInt(DigitsVal(body))

\* UTF-8 for code points below 2048 (one- and two-byte sequences)
RECURSIVE Utf8Decode(_)
Utf8Decode(b) ==
  IF b = <<>> THEN <<>>
  ELSE IF b[1] < 128 THEN
    LET rest == Utf8Decode(Tail(b))
    IN IF rest = <<-1>> THEN <<-1>> ELSE <<b[1]>> \o rest
  ELSE IF b[1] \in 194..223 /\ Len(b) >= 2 /\ b[2] \in 128..191 THEN
    LET rest == Utf8Decode(SubSeq(b, 3, Len(b)))
    IN IF rest = <<-1>> THEN <<-1>>
       ELSE <<(b[1] - 192) * 64 + (b[2] - 128)>> \o rest
  ELSE <<-1>>

RECURSIVE Utf8Encode(_)
Utf8Encode(s) ==
  IF s = <<>> THEN <<>>
  ELSE IF s[1] < 128 THEN <<s[1]>> \o Utf8Encode(Tail(s))
  ELSE <<192 + (s[1] \div 64), 128 + (s[1] % 64)>> \o Utf8Encode(Tail(s))

\* d.decode("utf-8")
decode(d) ==
  IF d.kind # "bytes" THEN PyExc("AttributeError")
  ELSE LET s == Utf8Decode(d.val)
       IN IF s = <<-1>> THEN PyExc("UnicodeDecodeError") ELSE PyStr(s)

\* the text of a uuid string
KeyChars(k) ==
  CASE k = "u1" -> <<117, 49>>
    [] k = "u2" -> <<117, 50>>
    [] k = "u3" -> <<117, 51>>
    [] OTHER -> <<117>>

\* the bytes the client sends for a value (set, rpush)
Encode(v) ==
  CASE v.kind = "bytes" -> v.val
    [] v.kind = "str" -> Utf8Encode(v.val)
    [] v.kind = "int" -> IntToAscii(v.num)
    [] v.kind = "float" -> v.val
    [] v.kind = "key" -> KeyChars(v.key)
    [] OTHER -> <<>>

\* repr(v) of a scalar without quotes or escapes in it
Repr(v) ==
  CASE v.kind = "str" -> <<39>> \o v.val \o <<39>>
    [] v.kind = "bytes" -> <<98, 39>> \o v.val \o <<39>>
    [] v.kind = "int" -> IntToAscii(v.num)
    [] v.kind = "float" -> v.val
    [] v.kind = "key" -> <<39>> \o KeyChars(v.key) \o <<39>>
    [] OTHER -> <<78, 111, 110, 101>>

\* str(args) of the one-element tuple (v,)
StrArgs(v) == <<40>> \o Repr(v) \o <<44, 41>>

\* str(output)
StrOutput(v) ==
  CASE v.kind = "key" -> KeyChars(v.key)
    [] v.kind = "str" -> v.val
    [] OTHER -> Repr(v)

\* ---------------------------------------------------------- external store
Qualname == "Cache.store"

InputKey == "Cache.store:inputs"

OutputKey == "Cache.store:outputs"

QualnameChars == <<67, 97, 99, 104, 101, 46, 115, 116, 111, 114, 101>>

Keys == Uuids \cup {Qualname, InputKey, OutputKey}

Absent == [type |-> "none", str |-> <<>>, list |-> <<>>]

StringEntry(b) == [type |-> "string", str |-> b, list |-> <<>>]

ListEntry(l) == [type |-> "list", str |-> <<>>, list |-> l]

EmptyDb == [k \in Keys |-> Absent]

flushdb(d) == [k \in DOMAIN d |-> Absent]

set(d, k, b) == [d EXCEPT ![k] = StringEntry(b)]

redis_get(d, k) ==
  CASE d[k].type = "none" -> PyNone
    [] d[k].type = "string" -> PyBytes(d[k].str)
    [] OTHER -> PyExc("ResponseError")

incr(d, k) ==
  LET cur == IF d[k].type = "none" THEN PyInt(0)
             ELSE IF d[k].type = "string" THEN int(PyBytes(d[k].str))
             ELSE PyExc("ResponseError")
  IN IF cur.kind = "int"
     THEN [db |-> set(d, k, IntToAscii(cur.num + 1)), exc |-> ""]
     ELSE [db |-> d, exc |-> "ResponseError"]

rpush(d, k, b) ==
  CASE d[k].type = "none" -> [db |-> [d EXCEPT ![k] = ListEntry(<<b>>)], exc |-> ""]
    [] d[k].type = "list" -> [db |-> [d EXCEPT ![k] = ListEntry(Append(d[k].list, b))], exc |-> ""]
    [] OTHER -> [db |-> d, exc |-> "ResponseError"]

lrange(d, k) ==
  CASE d[k].type = "none" -> [list |-> <<>>, exc |-> ""]
    [] d[k].type = "list" -> [list |-> d[k].list, exc |-> ""]
    [] OTHER -> [list |-> <<>>, exc |-> "ResponseError"]

\* content a store may hold before the program starts
InitialDbs ==
  { EmptyDb,
    [EmptyDb EXCEPT !["u1"] = StringEntry(<<102, 111, 111>>)],
    [EmptyDb EXCEPT !["u2"] = StringEntry(<<52, 50>>),
                    ![Qualname] = StringEntry(<<49>>),
                    ![InputKey] = ListEntry(<<StrArgs(PyInt(42))>>),
                    ![OutputKey] = ListEntry(<<KeyChars("u2")>>)] }

\* ---------------------------------------------------------------- callables
\* A callable is the sequence of its layers, outermost first:
\*   "function"  the def store of the class body
\*   "partial"   functools.partial(update_wrapper, wrapped=<rest>)
\*   "count"     count_calls.wrapper around <rest>
\*   "history"   call_history.wrapper around <rest>
HasQualname(c) == Head(c) \in {"function", "count", "history"}

\* functools.wraps(wrapped), used as a bare decorator
functools_wraps(wrapped) == <<"partial">> \o wrapped

count_calls(method) ==
  IF HasQualname(method)
  THEN [callable |-> <<"count">> \o method, exc |-> ""]
  ELSE [callable |-> method, exc |-> "AttributeError"]

call_history(method) ==
  IF HasQualname(method)
  THEN [callable |-> <<"history">> \o method, exc |-> ""]
  ELSE [callable |-> method, exc |-> "AttributeError"]

\* update_wrapper(wrapper, wrapped=...): setattr on the object given as wrapper
update_wrapper(wrapper) ==
  IF wrapper.kind \in {"str", "bytes", "int", "float", "None", "key"}
  THEN PyExc("AttributeError")
  ELSE wrapper

\* calling cache.store(data), u being the uuid4 drawn if the body is reached
RECURSIVE Invoke(_, _, _, _)
Invoke(c, d, data, u) ==
  IF Head(c) = "partial" THEN
    [db |-> d, cmds |-> <<>>, result |-> update_wrapper(data)]
  ELSE IF Head(c) = "function" THEN
    [db |-> set(d, u, Encode(data)), cmds |-> <<"SET">>, result |-> PyKey(u)]
  ELSE IF Head(c) = "count" THEN
    LET i == incr(d, Qualname)
    IN IF i.exc # ""
       THEN [db |-> d, cmds |-> <<"INCR">>, result |-> PyExc(i.exc)]
       ELSE LET r == Invoke(Tail(c), i.db, data, u)
            IN [db |-> r.db, cmds |-> <<"INCR">> \o r.cmds, result |-> r.result]
  ELSE
    LET p == rpush(d, InputKey, Utf8Encode(StrArgs(data)))
    IN IF p.exc # ""
       THEN [db |-> d, cmds |-> <<"RPUSH inputs">>, result |-> PyExc(p.exc)]
       ELSE LET r == Invoke(Tail(c), p.db, data, u)
            IN IF r.result.kind = "exc"
               THEN [db |-> r.db, cmds |-> <<"RPUSH inputs">> \o r.cmds, result |-> r.result]
               ELSE LET q == rpush(r.db, OutputKey, Utf8Encode(StrOutput(r.result)))
                    IN [db |-> q.db,
                        cmds |-> <<"RPUSH inputs">> \o r.cmds \o <<"RPUSH outputs">>,
                        result |-> IF q.exc # "" THEN PyExc(q.exc) ELSE r.result]

\* ------------------------------------------------------------------- Cache
Cache_init_noflush(d) == d

Cache_init(d) == flushdb(d)

Apply(fn, data) ==
  CASE fn = "decode" -> decode(data)
    [] fn = "int" -> int(data)
    [] OTHER -> data

get_unguarded(d, key, fn) ==
  LET data == redis_get(d, key)
  IN IF data.kind # "exc" /\ fn # "None" THEN Apply(fn, data) ELSE data

get(d, key, fn) ==
  LET data == redis_get(d, key)
  IN IF data.kind \notin {"None", "exc"} /\ fn # "None" THEN Apply(fn, data) ELSE data

get_str(d, key) == get(d, key, "decode")

get_int(d, key) == get(d, key, "int")

\* ------------------------------------------------------------------ replay
RECURSIVE Zip(_, _)
Zip(xs, ys) ==
  IF xs = <<>> \/ ys = <<>> THEN <<>>
  ELSE <<<<Head(xs), Head(ys)>>>> \o Zip(Tail(xs), Tail(ys))

\* f"{key} was called {n} times:"
HeaderLine(n) ==
  QualnameChars \o <<32, 119, 97, 115, 32, 99, 97, 108, 108, 101, 100, 32>>
    \o IntToAscii(n) \o <<32, 116, 105, 109, 101, 115, 58>>

\* f"{key}(*{input}) -> {output}"
CallLine(i, o) ==
  QualnameChars \o <<40, 42>> \o i \o <<41, 32, 45, 62, 32>> \o o

replay(method, d) ==
  IF ~HasQualname(method) THEN [out |-> <<>>, result |-> PyExc("AttributeError")]
  ELSE
    LET inputs == lrange(d, InputKey)
        outputs == lrange(d, OutputKey)
    IN IF inputs.exc # "" \/ outputs.exc # ""
       THEN [out |-> <<>>, result |-> PyExc("ResponseError")]
       ELSE LET pairs == Zip(inputs.list, outputs.list)
                d1 == [k \in 1..Len(pairs) |-> decode(PyBytes(pairs[k][1]))]
                d2 == [k \in 1..Len(pairs) |-> decode(PyBytes(pairs[k][2]))]
                bad == {k \in 1..Len(pairs) : d1[k].kind = "exc" \/ d2[k].kind = "exc"}
                n == IF bad = {} THEN Len(pairs)
                     ELSE (CHOOSE k \in bad : \A j \in bad : k <= j) - 1
            IN [out |-> <<HeaderLine(Len(inputs.list))>>
                          \o [k \in 1..n |-> CallLine(d1[k].val, d2[k].val)],
                result |-> IF bad = {} THEN PyNone ELSE PyExc("UnicodeDecodeError")]

\* ------------------------------------------------- module-level statements
ModuleStmts ==
  << "class Cache", "def count_calls", "def call_history",
     "Cache.store = count_calls(Cache.store)",
     "Cache.store = call_history(Cache.store)",
     "def replay" >>

ExecStmt(s, names, attr) ==
  CASE s = "class Cache" ->
         [ns |-> names \cup {"Cache"}, store |-> functools_wraps(<<"function">>), exc |-> ""]
    [] s = "def count_calls" ->
         [ns |-> names \cup {"count_calls"}, store |-> attr, exc |-> ""]
    [] s = "def call_history" ->
         [ns |-> names \cup {"call_history"}, store |-> attr, exc |-> ""]
    [] s = "Cache.store = count_calls(Cache.store)" ->
         LET r == count_calls(attr)
         IN [ns |-> names, store |-> r.callable, exc |-> r.exc]
    [] s = "Cache.store = call_history(Cache.store)" ->
         LET r == call_history(attr)
         IN [ns |-> names, store |-> r.callable, exc |-> r.exc]
    [] OTHER ->
         [ns |-> names \cup {"replay"}, store |-> attr, exc |-> ""]

LoadEnded == loadError # "" \/ loadpc > Len(ModuleStmts)

\* ------------------------------------------------------------------- state
NoCall ==
  [caller |-> "", op |-> "none", key |-> "", arg |-> PyNone, result |-> PyNone,
   cmds |-> <<>>, out |-> <<>>]

Init ==
  /\ loadpc = 1
  /\ loadError = ""
  /\ ns = {}
  /\ storeAttr = <<>>
  /\ redis0 \in InitialDbs
  /\ redis = redis0
  /\ cache = [c \in Callers |-> FALSE]
  /\ calls = <<>>
  /\ issued = {}
  /\ last = NoCall

\* the interpreter executes the next module-level statement
Load ==
  /\ ~LoadEnded
  /\ LET r == ExecStmt(ModuleStmts[loadpc], ns, storeAttr)
     IN /\ ns' = r.ns
        /\ storeAttr' = r.store
        /\ loadError' = r.exc
        /\ loadpc' = IF r.exc = "" THEN loadpc + 1 ELSE loadpc
  /\ UNCHANGED <<redis, redis0, cache, calls, issued, last>>

\* cache = Cache()
NewCache(c) ==
  /\ LoadEnded
  /\ "Cache" \in ns
  /\ redis' = Cache_init(redis)
  /\ cache' = [cache EXCEPT ![c] = TRUE]
  /\ calls' = <<>>
  /\ last' = [NoCall EXCEPT !.caller = c, !.op = "init", !.cmds = <<"FLUSHDB">>]
  /\ UNCHANGED <<loadpc, loadError, ns, storeAttr, redis0, issued>>

\* cache.store(v)
CallStore(c, v) ==
  /\ LoadEnded
  /\ cache[c]
  /\ Len(calls) < MaxCalls
  /\ \E u \in Uuids \ issued :
       LET r == Invoke(storeAttr, redis, v, u)
       IN /\ redis' = r.db
          /\ issued' = IF r.result.kind = "key" THEN issued \cup {u} ELSE issued
          /\ calls' = Append(calls, [caller |-> c, arg |-> v, result |-> r.result])
          /\ last' = [NoCall EXCEPT !.caller = c, !.op = "store", !.arg = v,
                                    !.result = r.result, !.cmds = r.cmds]
  /\ UNCHANGED <<loadpc, loadError, ns, storeAttr, redis0, cache>>

\* cache.get(k), cache.get_str(k), cache.get_int(k)
CallGet(c, k, op) ==
  /\ LoadEnded
  /\ cache[c]
  /\ LET r == CASE op = "get" -> get(redis, k, "None")
                [] op = "get_str" -> get_str(redis, k)
                [] OTHER -> get_int(redis, k)
     IN last' = [NoCall EXCEPT !.caller = c, !.op = op, !.key = k, !.result = r,
                               !.cmds = <<"GET">>]
  /\ UNCHANGED <<loadpc, loadError, ns, storeAttr, redis, redis0, cache, calls, issued>>

\* replay(Cache.store)
CallReplay(c) ==
  /\ LoadEnded
  /\ LET r == IF "replay" \in ns THEN replay(storeAttr, redis)
              ELSE [out |-> <<>>, result |-> PyExc("NameError")]
     IN last' = [NoCall EXCEPT !.caller = c, !.op = "replay", !.result = r.result,
                               !.out = r.out]
  /\ UNCHANGED <<loadpc, loadError, ns, storeAttr, redis, redis0, cache, calls, issued>>

Next ==
  \/ Load
  \/ \E c \in Callers : NewCache(c)
  \/ \E c \in Callers, v \in Values : CallStore(c, v)
  \/ \E c \in Callers, k \in Keys, op \in {"get", "get_str", "get_int"} : CallGet(c, k, op)
  \/ \E c \in Callers : CallReplay(c)

Spec == Init /\ [][Next]_vars

\* ------------------------------------------------------- derived quantities
Log(k) == IF redis[k].type = "list" THEN redis[k].list ELSE <<>>

Counter ==
  IF redis[Qualname].type = "string" THEN int(PyBytes(redis[Qualname].str)).num ELSE 0

AnyCache == \E c \in Callers : cache[c]

Min(a, b) == IF a <= b THEN a ELSE b

IsPermOf(a, b) ==
  /\ Len(a) = Len(b)
  /\ \E f \in Permutations(1..Len(a)) : \A i \in 1..Len(a) : a[i] = b[f[i]]

\* ------------------------------------------------------------------ claims

\* C1: a call store(v) returns a key under which the store holds v: get(key)
\* returns the raw bytes of v, get_str(key) the text for a text v, and
\* get_int(key) the integer for an integer v.
C1_RoundTrip ==
  last.op = "store" =>
    /\ last.result.kind = "key"
    /\ get(redis, last.result.key, "None") = PyBytes(Encode(last.arg))
    /\ last.arg.kind = "str" => get_str(redis, last.result.key) = last.arg
    /\ last.arg.kind = "int" => get_int(redis, last.result.key) = last.arg

\* C2: get, get_str and get_int of a key that store never issued return None:
\* no exception is raised and the conversion function is not applied.
C2_Miss ==
  (last.op \in {"get", "get_str", "get_int"} /\ last.key \notin issued)
    => last.result = PyNone

\* C2 witness: after store has been called, get_int of a never-issued key that
\* held a value before the Cache was constructed returned None.
C2_Witness ==
  /\ last.op = "get_int"
  /\ last.key \notin issued
  /\ redis0[last.key].type = "string"
  /\ Len(calls) > 0
  /\ last.result = PyNone

\* C3: after n calls of store the counter kept under "Cache.store" equals n,
\* and every call returned the key produced by the wrapped method.
C3_Counter ==
  AnyCache =>
    /\ Counter = Len(calls)
    /\ \A k \in 1..Len(calls) : calls[k].result.kind = "key"

\* C4: after n calls of store both logs have length n, the kth inputs entry is
\* the rendering of the kth call's arguments and the kth outputs entry the
\* rendering of the key the kth call returned.
C4_Logs ==
  AnyCache =>
    /\ Len(Log(InputKey)) = Len(calls)
    /\ Len(Log(OutputKey)) = Len(calls)
    /\ \A k \in 1..Len(calls) :
         /\ Log(InputKey)[k] = Utf8Encode(StrArgs(calls[k].arg))
         /\ calls[k].result.kind = "key"
         /\ Log(OutputKey)[k] = KeyChars(calls[k].result.key)

\* C6: one call of store issues its commands to the external store in the
\* order: append to the inputs log, increment the counter, write the value,
\* append to the outputs log.
C6_Order ==
  last.op = "store" =>
    last.cmds = <<"RPUSH inputs", "INCR", "SET", "RPUSH outputs">>

\* C7: replay(Cache.store) prints the number of recorded calls and then one
\* line per pair of kth inputs and kth outputs entry, up to the shorter log;
\* after n calls of store that is n lines, and with no calls none.
C7_Replay ==
  last.op = "replay" =>
    /\ last.result = PyNone
    /\ Len(last.out) = 1 + Min(Len(Log(InputKey)), Len(Log(OutputKey)))
    /\ last.out[1] = HeaderLine(Len(Log(InputKey)))
    /\ \A k \in 1..(Len(last.out) - 1) :
         last.out[k + 1] = CallLine(Log(InputKey)[k], Log(OutputKey)[k])
    /\ AnyCache => Len(last.out) = 1 + Len(calls)

\* C8: immediately after a Cache is constructed the external store holds no
\* key at all: no stored entry, no counter, no inputs or outputs log.
C8_Flush ==
  last.op = "init" => \A k \in Keys : redis[k] = Absent

\* C8 witness: a Cache has just been constructed on a store that held an entry,
\* a counter and both logs, while another Cache shares the store.
C8_Witness ==
  /\ last.op = "init"
  /\ redis0[Qualname].type = "string"
  /\ redis0[InputKey].type = "list"
  /\ redis0[OutputKey].type = "list"
  /\ \E k \in Uuids : redis0[k].type = "string"
  /\ \E c \in Callers : c # last.caller /\ cache[c]
  /\ redis = EmptyDb

====
